---- MODULE Spec2Model ----
(***************************************************************************)
(* Model of sippitudeapp.py: the Streamlit script of the Interactive Media *)
(* Intelligence Dashboard.  One script run is one atomic step.  The model  *)
(* covers clean_data (with its st.cache_data memoisation), the upload /    *)
(* removal handling of the script body, the charts guard and               *)
(* generate_insights.                                                      *)
(*                                                                         *)
(* Text is modelled as sequences of one-character strings where the code   *)
(* looks inside it (column names), and as atomic strings where the code    *)
(* only compares it (cell labels, file names).                             *)
(***************************************************************************)
EXTENDS Integers, Sequences, FiniteSets, TLC

VARIABLES
    uploaded_file,   \* value of the st.file_uploader widget: NoFile or a file
    file_name,       \* st.session_state['file_name']
    cleaned_data,    \* st.session_state['cleaned_data'] (a DataFrame)
    cache,           \* the st.cache_data store of clean_data
    clean_ret,       \* what the clean_data call of the last run returned
    charts_rendered, \* whether the last run entered the charts section
    nc_in,           \* column normaliser: the names before any pass
    nc_prev,         \* column normaliser: the names before the last pass
    nc_out,          \* column normaliser: the names after the last pass
    nc_passes,       \* column normaliser: passes applied
    gi_chart_type,   \* generate_insights: argument chart_type
    gi_data,         \* generate_insights: argument data
    gi_insights,     \* generate_insights: returned list
    gi_called        \* generate_insights: whether the call has returned

vars == <<uploaded_file, file_name, cleaned_data, cache, clean_ret,
          charts_rendered, nc_in, nc_prev, nc_out, nc_passes,
          gi_chart_type, gi_data, gi_insights, gi_called>>

session_vars == <<uploaded_file, file_name, cleaned_data, cache, clean_ret,
                  charts_rendered>>

nc_vars == <<nc_in, nc_prev, nc_out, nc_passes>>

gi_vars == <<gi_chart_type, gi_data, gi_insights, gi_called>>

(***************************************************************************)
(* Bounds of the model.                                                    *)
(***************************************************************************)
MaxNameLen == 2
MaxCols == 2
MaxPasses == 2
MaxFileRows == 2
MaxRows == 4

\* Sequences over S of length 0..n.
SeqUpTo(S, n) == UNION {[1..k -> S] : k \in 0..n}

(***************************************************************************)
(* Column Normalizer: _df.columns.str.lower().str.replace(' ', '_')        *)
(***************************************************************************)
UpperChars == <<"A","B","C","D","E","F","G","H","I","J","K","L","M",
                "N","O","P","Q","R","S","T","U","V","W","X","Y","Z">>

LowerChars == <<"a","b","c","d","e","f","g","h","i","j","k","l","m",
                "n","o","p","q","r","s","t","u","v","w","x","y","z">>

\* A plausible slip: swapcase() instead of lower().
LowerCharSwap(c) ==
    IF \E i \in DOMAIN UpperChars : UpperChars[i] = c
    THEN LowerChars[CHOOSE i \in DOMAIN UpperChars : UpperChars[i] = c]
    ELSE IF \E i \in DOMAIN LowerChars : LowerChars[i] = c
         THEN UpperChars[CHOOSE i \in DOMAIN LowerChars : LowerChars[i] = c]
         ELSE c

\* str.lower() on one character.
LowerChar(c) ==
    IF \E i \in DOMAIN UpperChars : UpperChars[i] = c
    THEN LowerChars[CHOOSE i \in DOMAIN UpperChars : UpperChars[i] = c]
    ELSE c

\* str.lower() on a string.
StrLower(s) == [i \in DOMAIN s |-> LowerChar(s[i])]

\* str.replace(' ', '_') on a string: every space, leading and trailing too.
StrReplaceSpace(s) == [i \in DOMAIN s |-> IF s[i] = " " THEN "_" ELSE s[i]]

\* One column name through .str.lower().str.replace(' ', '_').
NormalizeName(s) == StrReplaceSpace(StrLower(s))

\* The whole Index of column names.
NormalizeColumns(cols) == [i \in DOMAIN cols |-> NormalizeName(cols[i])]

(***************************************************************************)
(* DataFrames.  A frame is its column names and its rows; a row holds one  *)
(* cell per column, in column order.  A raw cell is the text read_csv      *)
(* found, or NA for an empty cell.  A coerced cell is <<v>> for a value    *)
(* and <<>> for NaT / NaN.                                                 *)
(***************************************************************************)
NA == "<NA>"

\* pd.DataFrame()
EmptyDataFrame == [columns |-> <<>>, rows |-> <<>>]

\* DataFrame.empty: any axis of length 0.
IsEmpty(df) == Len(df.columns) = 0 \/ Len(df.rows) = 0

\* Position of the column called name (column names are unique here).
ColIndex(df, name) == CHOOSE i \in DOMAIN df.columns : df.columns[i] = name

\* df[name] as a sequence of cells.
Col(df, name) == [r \in DOMAIN df.rows |-> df.rows[r][ColIndex(df, name)]]

\* df[name] = values
SetCol(df, name, values) ==
    [df EXCEPT !.rows = [r \in DOMAIN df.rows |->
        [df.rows[r] EXCEPT ![ColIndex(df, name)] = values[r]]]]

\* The elements of a sequence, as a set.
Range(s) == {s[i] : i \in DOMAIN s}

c_date == <<"d","a","t","e">>
c_platform == <<"p","l","a","t","f","o","r","m">>
c_sentiment == <<"s","e","n","t","i","m","e","n","t">>
c_location == <<"l","o","c","a","t","i","o","n">>
c_engagements == <<"e","n","g","a","g","e","m","e","n","t","s">>
c_media_type == <<"m","e","d","i","a","_","t","y","p","e">>

required_columns ==
    <<c_date, c_platform, c_sentiment, c_location, c_engagements, c_media_type>>

\* [col for col in required_columns if col not in _df.columns]
MissingColumns(cols) ==
    LET Absent(col) == col \notin Range(cols)
    IN  SelectSeq(required_columns, Absent)

(***************************************************************************)
(* Cell parsing.  A datetime is a count of hours since 2024-01-01 00:00,   *)
(* so .dt.date is the count of whole days.                                 *)
(***************************************************************************)
DateTexts == {"2024-01-01", "2024-01-01 10:00", "2024-01-02", "2024-01-03"}

HoursOf(cell) ==
    CASE cell = "2024-01-01" -> 0
      [] cell = "2024-01-01 10:00" -> 10
      [] cell = "2024-01-02" -> 24
      [] cell = "2024-01-03" -> 48

\* pd.to_datetime(cell, errors='coerce'): NaT for NA and for text that is no date.
ToDatetime(cell) == IF cell \in DateTexts THEN <<HoursOf(cell)>> ELSE <<>>

NumberTexts == {"0", "10", "300", "700", "-5"}

NumberOf(cell) ==
    CASE cell = "0" -> 0
      [] cell = "10" -> 10
      [] cell = "300" -> 300
      [] cell = "700" -> 700
      [] cell = "-5" -> 0 - 5

\* pd.to_numeric(cell, errors='coerce'): NaN for NA and for text that is no number.
ToNumeric(cell) == IF cell \in NumberTexts THEN <<NumberOf(cell)>> ELSE <<>>

\* A plausible slip: the coercion without .fillna(0).
CoerceEngagementsNoFill(cell) == ToNumeric(cell)

\* pd.to_numeric(..., errors='coerce').fillna(0) on one cell.
CoerceEngagements(cell) ==
    IF ToNumeric(cell) = <<>> THEN <<0>> ELSE ToNumeric(cell)

\* _df.dropna(subset=['date']): the rows whose date is not NaT, in order.
DropNaDate(df) ==
    LET HasDate(row) == row[ColIndex(df, c_date)] # <<>>
    IN  [df EXCEPT !.rows = SelectSeq(df.rows, HasDate)]

(***************************************************************************)
(* clean_data.  A return value is the pair (frame, error message); the     *)
(* message is its fixed text and the column names joined into it.          *)
(***************************************************************************)
NoError == [text |-> "", missing |-> <<>>]

\* The body of clean_data, as run on a cache miss.
CleanDataBody(df) ==
    IF IsEmpty(df)
    THEN [df |-> EmptyDataFrame,
          error |-> [text |-> "No data to clean or process.", missing |-> <<>>]]
    ELSE LET normalized == [df EXCEPT !.columns = NormalizeColumns(df.columns)]
             missing_columns == MissingColumns(normalized.columns)
         IN  IF missing_columns # <<>>
             THEN [df |-> EmptyDataFrame,
                   error |-> [text |-> "Missing required columns",
                              missing |-> missing_columns]]
             ELSE LET dated == SetCol(normalized, c_date,
                          [r \in DOMAIN normalized.rows |->
                              ToDatetime(Col(normalized, c_date)[r])])
                      counted == SetCol(dated, c_engagements,
                          [r \in DOMAIN dated.rows |->
                              CoerceEngagements(Col(dated, c_engagements)[r])])
                  IN  [df |-> DropNaDate(counted), error |-> NoError]

\* st.cache_data keys an entry by the function and by the hash of its
\* arguments, leaving out every parameter whose name begins with an
\* underscore.  clean_data's only parameter is _df, so nothing is hashed.
CacheKey(df) == <<>>

\* clean_data(df) as the script calls it: the memoised function.
clean_data(df) ==
    IF CacheKey(df) \in DOMAIN cache THEN cache[CacheKey(df)] ELSE CleanDataBody(df)

\* The cache after the call clean_data(df).
CacheAfter(df) ==
    IF CacheKey(df) \in DOMAIN cache
    THEN cache
    ELSE [k \in DOMAIN cache \cup {CacheKey(df)} |->
            IF k = CacheKey(df) THEN CleanDataBody(df) ELSE cache[k]]

(***************************************************************************)
(* Uploaded files.  A file is what pd.read_csv makes of its bytes: either  *)
(* an exception or a header and rows of raw cells.                         *)
(***************************************************************************)
NoFile == [present |-> FALSE, name |-> "", parses |-> FALSE,
           columns |-> <<>>, rows |-> <<>>]

h_Date == <<"D","a","t","e">>
h_Platform == <<"P","l","a","t","f","o","r","m">>
h_Sentiment == <<"S","e","n","t","i","m","e","n","t">>
h_Location == <<"L","o","c","a","t","i","o","n">>
h_Engagements == <<"E","n","g","a","g","e","m","e","n","t","s">>
h_Media_Type == <<"M","e","d","i","a"," ","T","y","p","e">>

\* The header the page asks for.
HeaderFull ==
    <<h_Date, h_Platform, h_Sentiment, h_Location, h_Engagements, h_Media_Type>>

\* Headers of the uploads, each as the positions of HeaderFull it keeps:
\* complete, without Location, without Date and Media Type.
HeaderShapes == {<<1, 2, 3, 4, 5, 6>>, <<1, 2, 3, 5, 6>>, <<2, 3, 4, 5>>}

\* Lines of the uploads, in the order of HeaderFull.
FileLines ==
    { <<"2024-01-01", "A", "Positive", "NY", "10", "Video">>,
      <<"bad", "B", "Negative", "NY", NA, "Image">>,
      <<"2024-01-02", "B", "Negative", "LA", "abc", "Image">>,
      <<"2024-01-01 10:00", NA, NA, NA, "-5", NA>> }

Project(line, shape) == [i \in DOMAIN shape |-> line[shape[i]]]

CsvFiles ==
    { [present |-> TRUE, name |-> "mentions.csv", parses |-> TRUE,
       columns |-> Project(HeaderFull, shape),
       rows |-> [r \in DOMAIN lines |-> Project(lines[r], shape)]] :
        shape \in HeaderShapes, lines \in SeqUpTo(FileLines, MaxFileRows) }

\* An upload whose bytes pd.read_csv rejects.
BrokenFile == [present |-> TRUE, name |-> "broken.csv", parses |-> FALSE,
               columns |-> <<>>, rows |-> <<>>]

Files == CsvFiles \cup {BrokenFile}

\* pd.read_csv(io.BytesIO(uploaded_file.getvalue())), where it returns.
ReadCsv(f) == [columns |-> f.columns, rows |-> f.rows]

(***************************************************************************)
(* One run of the script body with the uploader holding f.                 *)
(***************************************************************************)
NotCalled == [called |-> FALSE, df |-> EmptyDataFrame, error |-> NoError]

\* df after the try / except around pd.read_csv.
DfRead(f) == IF f.parses THEN ReadCsv(f) ELSE EmptyDataFrame

RunScript(f) ==
    /\ uploaded_file' = f
    /\ IF f.present
       THEN LET df == DfRead(f)
            IN  /\ file_name' = IF f.parses THEN f.name ELSE file_name
                /\ IF ~IsEmpty(df)
                   THEN LET ret == clean_data(df)
                        IN  /\ clean_ret' = [called |-> TRUE, df |-> ret.df,
                                             error |-> ret.error]
                            /\ cache' = CacheAfter(df)
                            /\ cleaned_data' = IF ret.error.text # ""
                                               THEN EmptyDataFrame
                                               ELSE ret.df
                   ELSE /\ clean_ret' = NotCalled
                        /\ cache' = cache
                        /\ cleaned_data' = EmptyDataFrame
       ELSE /\ clean_ret' = NotCalled
            /\ cache' = cache
            /\ IF file_name # ""
               THEN /\ file_name' = ""
                    /\ cleaned_data' = EmptyDataFrame
               ELSE UNCHANGED <<file_name, cleaned_data>>
    /\ charts_rendered' = ~IsEmpty(cleaned_data')

\* The user picks a file in the uploader; the script reruns.
Upload ==
    /\ \E f \in Files : RunScript(f)
    /\ UNCHANGED <<nc_vars, gi_vars>>

\* The user removes the file from the uploader; the script reruns.
Remove ==
    /\ uploaded_file.present
    /\ RunScript(NoFile)
    /\ UNCHANGED <<nc_vars, gi_vars>>

NcIdle == nc_in = <<>> /\ nc_prev = <<>> /\ nc_out = <<>> /\ nc_passes = 0

GiIdle ==
    /\ gi_chart_type = "" /\ gi_data = EmptyDataFrame
    /\ gi_insights = <<>> /\ gi_called = FALSE

SessionIdle ==
    /\ uploaded_file = NoFile /\ file_name = "" /\ cleaned_data = EmptyDataFrame
    /\ cache = <<>> /\ clean_ret = NotCalled /\ charts_rendered = FALSE

\* A new session after its first run, nothing uploaded, nothing cached.
Init == SessionIdle /\ NcIdle /\ GiIdle

Next == Upload \/ Remove

Spec == Init /\ [][Next]_vars

(***************************************************************************)
(* Properties of the session (Spec).                                       *)
(***************************************************************************)
\* The frame the uploader's file reads as, with its column names normalized.
UploadedFrame ==
    [columns |-> NormalizeColumns(uploaded_file.columns), rows |-> uploaded_file.rows]

\* The file in the uploader parses and has all six required columns.
UploadPasses ==
    /\ uploaded_file.present /\ uploaded_file.parses
    /\ MissingColumns(UploadedFrame.columns) = <<>>

\* The file in the uploader parses and lacks a required column.
UploadLacksColumns ==
    /\ uploaded_file.present /\ uploaded_file.parses
    /\ MissingColumns(UploadedFrame.columns) # <<>>

\* The rows of the uploaded file whose date cell parses, in file order.
UploadKeptRows ==
    LET Parses(row) == row[ColIndex(UploadedFrame, c_date)] \in DateTexts
    IN  SelectSeq(UploadedFrame.rows, Parses)

\* C1: when the last event is the upload of a file that parses and passes
\* validation, the session's Cleaned Record Set is the result of cleaning that
\* file's rows, never the result of an earlier upload.
C1_ReplacedWholesale ==
    UploadPasses => cleaned_data = CleanDataBody(ReadCsv(uploaded_file)).df

\* C2: when the last event is an upload removal, a CSV parse failure or an
\* upload that fails the required-column validation, the session's Cleaned
\* Record Set is empty and the charts section is not rendered.
C2_ClearedOnFailure ==
    (\/ ~uploaded_file.present
     \/ ~uploaded_file.parses
     \/ UploadLacksColumns) => IsEmpty(cleaned_data) /\ ~charts_rendered

\* C3: for an input lacking required columns, clean_data returns the empty
\* frame and an error whose missing-column list holds exactly the required
\* names that are absent; nothing is coerced or dropped.
C3_ValidationFails ==
    (clean_ret.called /\ UploadLacksColumns) =>
        /\ clean_ret.df = EmptyDataFrame
        /\ clean_ret.error.text # ""
        /\ Range(clean_ret.error.missing) =
               Range(required_columns) \ Range(UploadedFrame.columns)

\* C4: for an input that passes validation, clean_data returns exactly the
\* input rows whose date cell parses, in their original order, and no more
\* rows than it was given.
C4_KeepsParseableDates ==
    (clean_ret.called /\ UploadPasses) =>
        /\ Len(clean_ret.df.rows) <= Len(UploadedFrame.rows)
        /\ Len(clean_ret.df.rows) = Len(UploadKeptRows)
        /\ \A k \in DOMAIN clean_ret.df.rows :
              /\ Col(clean_ret.df, c_date)[k] =
                     ToDatetime(UploadKeptRows[k][ColIndex(UploadedFrame, c_date)])
              /\ \A c \in {c_platform, c_sentiment, c_location, c_media_type} :
                     Col(clean_ret.df, c)[k] =
                         UploadKeptRows[k][ColIndex(UploadedFrame, c)]

\* C5: for an input that passes validation, every row clean_data keeps has
\* engagements 0 when its cell is non-numeric or absent, and the cell's number
\* unchanged when it is numeric.
C5_EngagementsCoerced ==
    (clean_ret.called /\ UploadPasses) =>
        \A k \in DOMAIN UploadKeptRows :
            /\ k \in DOMAIN clean_ret.df.rows
            /\ LET cell == UploadKeptRows[k][ColIndex(UploadedFrame, c_engagements)]
               IN  Col(clean_ret.df, c_engagements)[k] =
                       IF cell \in NumberTexts THEN <<NumberOf(cell)>> ELSE <<0>>

\* The engagements values of a cleaned frame.
EngagementsOf(df) ==
    IF IsEmpty(df) THEN {} ELSE Range(Col(df, c_engagements))

\* C6 as claimed: every row of every Cleaned Record Set clean_data produces has
\* a non-negative engagements value.
C6_NonNegative ==
    \A v \in EngagementsOf(clean_ret.df) \cup EngagementsOf(cleaned_data) :
        v # <<>> /\ v[1] >= 0

\* C6 as amended: every row of every Cleaned Record Set clean_data produces has
\* an engagements value that is a number, never missing; the number keeps its
\* sign, so it can be negative.
C6_AlwaysANumber ==
    \A v \in EngagementsOf(clean_ret.df) \cup EngagementsOf(cleaned_data) :
        Len(v) = 1 /\ v[1] \in Int

\* C6 witness: a cleaned frame holds a defaulted 0 beside a negative value.
C6_Witness ==
    /\ <<0 - 5>> \in EngagementsOf(cleaned_data)
    /\ <<0>> \in EngagementsOf(cleaned_data)
    /\ \E r \in DOMAIN uploaded_file.rows :
           uploaded_file.rows[r][5] \notin NumberTexts

(***************************************************************************)
(* The column normaliser on its own (SpecNormalize): any list of column    *)
(* names, normalized again and again.                                      *)
(***************************************************************************)
NameChars == {"A", "b", " "}

Names == SeqUpTo(NameChars, MaxNameLen)

InitNormalize ==
    /\ nc_in \in SeqUpTo(Names, MaxCols)
    /\ nc_prev = nc_in
    /\ nc_out = nc_in
    /\ nc_passes = 0
    /\ SessionIdle /\ GiIdle

\* _df.columns = _df.columns.str.lower().str.replace(' ', '_')
Normalize ==
    /\ nc_passes < MaxPasses
    /\ nc_prev' = nc_out
    /\ nc_out' = NormalizeColumns(nc_out)
    /\ nc_passes' = nc_passes + 1
    /\ UNCHANGED <<nc_in, session_vars, gi_vars>>

NextNormalize == Normalize

SpecNormalize == InitNormalize /\ [][NextNormalize]_vars

\* C9: column normalization is idempotent: normalizing names that are already
\* normalized yields the same names.
C9_NormalizeIdempotent == nc_passes >= 2 => nc_out = nc_prev

\* C9 witness: a second pass over names the first pass changed, upper case and
\* space both.
C9_Witness ==
    /\ nc_passes = 2
    /\ \E i \in DOMAIN nc_in :
          /\ \E j \in DOMAIN nc_in[i] : nc_in[i][j] = "A" /\ nc_out[i][j] = "a"
          /\ \E j \in DOMAIN nc_in[i] : nc_in[i][j] = " " /\ nc_out[i][j] = "_"

(***************************************************************************)
(* generate_insights.  A statement is the fixed wording of its f-string    *)
(* and the values formatted into it: a label, and up to two numbers.  A    *)
(* percentage printed with :.1f is held in tenths; a number printed with   *)
(* :,.0f is held as the integer printed; a date is held as its day count.  *)
(***************************************************************************)
Stmt(text, label, value, value2) ==
    [text |-> text, label |-> label, value |-> value, value2 |-> value2]

\* n / d rounded to the nearest integer, halves to the even one, as the
\* format specifications round.
RoundHalfEven(n, d) ==
    LET q == n \div d
        r == n % d
    IN  IF 2 * r < d THEN q
        ELSE IF 2 * r > d THEN q + 1
        ELSE IF q % 2 = 0 THEN q ELSE q + 1

\* f"{100 * count / total:.1f}", in tenths of a percent.
Format1fPercent(count, total) == RoundHalfEven(1000 * count, total)

\* f"{n / d:,.0f}"
Format0f(n, d) == RoundHalfEven(n, d)

RECURSIVE SumSeq(_)
SumSeq(s) == IF s = <<>> THEN 0 ELSE Head(s) + SumSeq(Tail(s))

MaxOf(S) == CHOOSE x \in S : \A y \in S : x >= y

MinOf(S) == CHOOSE x \in S : \A y \in S : x <= y

\* Series.count(): the cells that are not missing.
CountNonMissing(cells) == Cardinality({i \in DOMAIN cells : cells[i] # NA})

\* Series.value_counts(): occurrences of each value, missing cells left out.
ValueCounts(cells) ==
    [k \in Range(cells) \ {NA} |-> Cardinality({i \in DOMAIN cells : cells[i] = k})]

\* data.groupby(keys)[values].sum(): missing keys left out.
GroupSum(keys, values) ==
    [k \in Range(keys) \ {NA} |->
        LET Picked(i) == keys[i] = k
            idx == SelectSeq([i \in DOMAIN keys |-> i], Picked)
        IN  SumSeq([j \in DOMAIN idx |-> values[idx[j]][1]])]

\* A plausible slip: ascending=True.
SortsBeforeAscending(a, b) == a <= b

\* Descending order of value_counts() and of sort_values(ascending=False).
SortsBefore(a, b) == a >= b

\* The orders in which a series sorted by descending value can list its
\* index: equal values come in an order the library does not fix.
Orderings(series) ==
    LET n == Cardinality(DOMAIN series)
    IN  {o \in [1..n -> DOMAIN series] :
            /\ \A i, j \in 1..n : i # j => o[i] # o[j]
            /\ \A i, j \in 1..n : i < j => SortsBefore(series[o[i]], series[o[j]])}

\* Series.idxmax() of the series listed in order o: the first label holding the
\* maximum.
IdxMax(series, o) ==
    o[CHOOSE i \in DOMAIN o :
         /\ series[o[i]] = MaxOf({series[k] : k \in DOMAIN series})
         /\ \A j \in 1..(i - 1) : series[o[j]] # series[o[i]]]

\* Series.drop(label), listed in order o.
DropLabel(o, label) == LET Other(k) == k # label IN SelectSeq(o, Other)

\* A plausible slip: head(2) where head(5) was meant.
HeadOfTwo(o, n) == SubSeq(o, 1, IF Len(o) < 2 THEN Len(o) ELSE 2)

\* Series.head(n), listed in order o.
HeadOf(o, n) == SubSeq(o, 1, IF Len(o) < n THEN Len(o) ELSE n)

\* series.drop(label)
Without(series, label) == [k \in DOMAIN series \ {label} |-> series[k]]

\* A sequence or nothing, as an `if` around an append gives.
When(cond, stmts) == IF cond THEN stmts ELSE <<>>

\* head(5) of the location counts.
TopN == 5

\* A plausible slip: returning the still-empty list.
EmptyDataInsightsNone == <<>>

\* The early return for an empty frame.
EmptyDataInsights == <<Stmt("No data available for insights.", "", 0, 0)>>

\* The 'sentiment' and 'media_type_mix' branches: value_counts(normalize=True)
\* of one column, worded by three texts.
MixInsights(cells, text_top, text_second, text_total) ==
    LET counts == ValueCounts(cells)
        total == CountNonMissing(cells)
        Percent(k) == Format1fPercent(counts[k], total)
    IN  IF DOMAIN counts = {}
        THEN {<<>>}
        ELSE {  LET top == IdxMax(counts, o)
                    rest == Without(counts, top)
                IN  <<Stmt(text_top, top, Percent(top), 0)>>
                    \o When(Len(o) > 1,
                            <<Stmt(text_second,
                                   IdxMax(rest, DropLabel(o, top)),
                                   Percent(IdxMax(rest, DropLabel(o, top))), 0)>>)
                    \o <<Stmt(text_total, "", total, 0)>>
                : o \in Orderings(counts) }

\* The 'engagement_trend' branch.  groupby lists the dates in ascending order.
TrendInsights(data) ==
    LET dates == Col(data, c_date)
        days == {dates[i][1] \div 24 : i \in {j \in DOMAIN dates : dates[j] # <<>>}}
        DaySum(d) ==
            LET OnDay(i) == dates[i] # <<>> /\ dates[i][1] \div 24 = d
                idx == SelectSeq([i \in DOMAIN dates |-> i], OnDay)
            IN  SumSeq([j \in DOMAIN idx |-> Col(data, c_engagements)[idx[j]][1]])
        daily_engagements == [d \in days |-> DaySum(d)]
        peak_engagements == MaxOf({daily_engagements[d] : d \in days})
        peak_date == MinOf({d \in days : daily_engagements[d] = peak_engagements})
        total == SumSeq([i \in DOMAIN dates |->
                            IF dates[i] # <<>> THEN Col(data, c_engagements)[i][1] ELSE 0])
    IN  IF days = {}
        THEN {<<Stmt("No valid date-based engagement data found.", "", 0, 0)>>}
        ELSE {<<Stmt("Peak engagement occurred on", "", peak_date, peak_engagements),
                Stmt("Average daily engagements across the period", "",
                     Format0f(total, Cardinality(days)), 0),
                Stmt("Data covers the period from", "", MinOf(days), MaxOf(days))>>}

\* The 'platform_engagements' branch.
PlatformInsights(data) ==
    LET platform_engagement_sums ==
            GroupSum(Col(data, c_platform), Col(data, c_engagements))
    IN  IF DOMAIN platform_engagement_sums = {}
        THEN {<<>>}
        ELSE {  <<Stmt("The platform with the highest engagement is",
                       o[1], platform_engagement_sums[o[1]], 0)>>
                \o When(Len(o) > 1,
                        <<Stmt("The second highest engaging platform is",
                               o[2], platform_engagement_sums[o[2]], 0)>>)
                \o <<Stmt("A total of unique platforms were identified", "",
                          Len(o), 0)>>
                : o \in Orderings(platform_engagement_sums) }

\* The 'top_locations' branch.
LocationInsights(data) ==
    LET counts == ValueCounts(Col(data, c_location))
    IN  IF DOMAIN counts = {}
        THEN {<<Stmt("No location data available for analysis.", "", 0, 0)>>}
        ELSE {  LET location_counts == HeadOf(o, TopN)
                IN  <<Stmt("The top location for mentions is",
                           location_counts[1], counts[location_counts[1]], 0)>>
                    \o When(Len(location_counts) > 1,
                            <<Stmt("The second top location is",
                                   location_counts[2], counts[location_counts[2]], 0)>>)
                    \o When(Len(location_counts) > 2,
                            <<Stmt("The third top location is",
                                   location_counts[3], counts[location_counts[3]], 0)>>)
                : o \in Orderings(counts) }

ChartTypes ==
    {"sentiment", "engagement_trend", "platform_engagements", "media_type_mix",
     "top_locations"}

\* generate_insights(chart_type, data): the lists it can return, one for each
\* order the aggregation can list equal values in.
GenerateInsights(chart_type, data) ==
    IF IsEmpty(data)
    THEN {EmptyDataInsights}
    ELSE CASE chart_type = "sentiment" ->
                MixInsights(Col(data, c_sentiment),
                            "Dominant sentiment",
                            "Second most common sentiment",
                            "Overall sentiment entries were analyzed")
           [] chart_type = "engagement_trend" -> TrendInsights(data)
           [] chart_type = "platform_engagements" -> PlatformInsights(data)
           [] chart_type = "media_type_mix" ->
                MixInsights(Col(data, c_media_type),
                            "The most prevalent media type is",
                            "The second most common media type is",
                            "In total media type entries were counted")
           [] chart_type = "top_locations" -> LocationInsights(data)
           [] OTHER -> {<<>>}

(***************************************************************************)
(* generate_insights on its own (SpecInsights): any cleaned frame of a few *)
(* rows, the empty ones included, and any chart type.                      *)
(***************************************************************************)
\* Rows of a cleaned frame, in the order of required_columns.
CleanLines ==
    { << <<0>>,  "A", "Positive", "NY", <<300>>,   "Video" >>,
      << <<10>>, "B", "Negative", "LA", <<700>>,   "Image" >>,
      << <<24>>, "A", "Neutral",  "SF", <<0>>,     "Video" >>,
      << <<24>>, NA,  NA,         NA,   <<0 - 5>>, NA >>,
      << <<48>>, "C", "Positive", "TX", <<10>>,    "Text" >>,
      << <<0>>,  "B", "Positive", "NY", <<300>>,   NA >> }

CleanFrames ==
    {EmptyDataFrame} \cup
    {[columns |-> required_columns, rows |-> rows] :
        rows \in SeqUpTo(CleanLines, MaxRows)}

InitInsights ==
    /\ gi_data \in CleanFrames
    /\ gi_chart_type = ""
    /\ gi_insights = <<>>
    /\ gi_called = FALSE
    /\ SessionIdle /\ NcIdle

\* One call generate_insights(chart_type, gi_data).
CallGenerateInsights ==
    /\ ~gi_called
    /\ \E chart_type \in ChartTypes :
          /\ gi_chart_type' = chart_type
          /\ gi_insights' \in GenerateInsights(chart_type, gi_data)
    /\ gi_called' = TRUE
    /\ UNCHANGED <<gi_data, session_vars, nc_vars>>

NextInsights == CallGenerateInsights

SpecInsights == InitInsights /\ [][NextInsights]_vars

(***************************************************************************)
(* Properties of generate_insights (SpecInsights).                         *)
(***************************************************************************)
\* The distinct non-missing values of a column of gi_data.
Distinct(name) == Range(Col(gi_data, name)) \ {NA}

\* Summed engagements of the rows of gi_data on platform p.
PlatformTotal(p) ==
    SumSeq([i \in DOMAIN gi_data.rows |->
               IF Col(gi_data, c_platform)[i] = p
               THEN Col(gi_data, c_engagements)[i][1] ELSE 0])

\* Occurrences of location l in gi_data.
LocationCount(l) ==
    Cardinality({i \in DOMAIN gi_data.rows : Col(gi_data, c_location)[i] = l})

PlatformCall ==
    gi_called /\ gi_chart_type = "platform_engagements" /\ ~IsEmpty(gi_data)

\* What C7 says of the returned list, given the platforms P of the data.
PlatformReport(P) ==
    /\ Len(gi_insights) = (IF Cardinality(P) >= 2 THEN 3 ELSE 2)
    /\ gi_insights[1].text = "The platform with the highest engagement is"
    /\ gi_insights[1].label \in P
    /\ gi_insights[1].value = PlatformTotal(gi_insights[1].label)
    /\ \A p \in P : PlatformTotal(p) <= gi_insights[1].value
    /\ Cardinality(P) >= 2 =>
          /\ gi_insights[2].text = "The second highest engaging platform is"
          /\ gi_insights[2].label \in P \ {gi_insights[1].label}
          /\ gi_insights[2].value = PlatformTotal(gi_insights[2].label)
          /\ \A p \in P \ {gi_insights[1].label} :
                 PlatformTotal(p) <= gi_insights[2].value
    /\ gi_insights[Len(gi_insights)].text =
           "A total of unique platforms were identified"
    /\ gi_insights[Len(gi_insights)].value = Cardinality(P)

\* C7 as claimed: for any non-empty Cleaned Record Set the platform_engagements
\* insights report the platform of maximum summed engagements with its sum,
\* the platform of maximum sum among the others (when there are two) with its
\* sum, and the number of distinct platforms.
C7_PlatformRanking ==
    PlatformCall => Len(gi_insights) >= 1 /\ PlatformReport(Distinct(c_platform))

\* C7 as amended: the same, for any non-empty Cleaned Record Set in which at
\* least one row has a platform.
C7_PlatformRankingWhenPresent ==
    (PlatformCall /\ Distinct(c_platform) # {}) =>
        PlatformReport(Distinct(c_platform))

\* C7 witness: sums {A: 300, B: 700} reported as B 700, A 300, count 2.
C7_Witness ==
    /\ PlatformCall
    /\ Distinct(c_platform) = {"A", "B"}
    /\ PlatformTotal("A") = 300 /\ PlatformTotal("B") = 700
    /\ gi_insights[1].label = "B" /\ gi_insights[1].value = 700
    /\ gi_insights[2].label = "A" /\ gi_insights[2].value = 300
    /\ gi_insights[3].value = 2

\* C8: for each of the five chart categories, generate_insights on an empty
\* dataset returns exactly the one statement "No data available for insights."
C8_EmptyData ==
    (gi_called /\ IsEmpty(gi_data)) =>
        /\ Len(gi_insights) = 1
        /\ gi_insights[1].text = "No data available for insights."

\* C8 witness: the call on a frame that has the six columns and no rows.
C8_Witness ==
    /\ gi_called /\ gi_data.columns = required_columns /\ gi_data.rows = <<>>
    /\ gi_chart_type = "top_locations"
    /\ Len(gi_insights) = 1

\* The column a chart category counts the distinct values of.
CategoryColumn(chart_type) ==
    CASE chart_type = "sentiment" -> c_sentiment
      [] chart_type = "media_type_mix" -> c_media_type
      [] chart_type = "platform_engagements" -> c_platform
      [] chart_type = "top_locations" -> c_location

\* The smaller of two numbers.
Least(a, b) == IF a < b THEN a ELSE b

\* C10: with k >= 1 distinct non-missing values in the category's column of a
\* non-empty Cleaned Record Set, sentiment, media_type_mix and
\* platform_engagements return 2 statements when k = 1 and 3 when k >= 2;
\* top_locations returns min(k, 3) statements, each a distinct location with
\* its occurrence count, in descending order of count from the maximum.
C10_LowerRanksOmitted ==
    (/\ gi_called /\ ~IsEmpty(gi_data)
     /\ gi_chart_type \in ChartTypes \ {"engagement_trend"}
     /\ Distinct(CategoryColumn(gi_chart_type)) # {}) =>
        LET k == Cardinality(Distinct(CategoryColumn(gi_chart_type)))
        IN  IF gi_chart_type = "top_locations"
            THEN /\ Len(gi_insights) = Least(k, 3)
                 /\ \A i \in DOMAIN gi_insights :
                       /\ gi_insights[i].label \in Distinct(c_location)
                       /\ gi_insights[i].value = LocationCount(gi_insights[i].label)
                       /\ \A j \in DOMAIN gi_insights :
                              i < j =>
                                 /\ gi_insights[i].label # gi_insights[j].label
                                 /\ gi_insights[i].value >= gi_insights[j].value
                       /\ \A l \in Distinct(c_location) :
                              (\A j \in DOMAIN gi_insights : gi_insights[j].label # l)
                                  => LocationCount(l) <= gi_insights[i].value
            ELSE Len(gi_insights) = (IF k = 1 THEN 2 ELSE 3)

\* C10 witness: three distinct locations in four rows, three statements, the
\* first with a larger count than the second.
C10_Witness ==
    /\ gi_called /\ gi_chart_type = "top_locations"
    /\ Cardinality(Distinct(c_location)) = 3
    /\ Len(gi_data.rows) = 4
    /\ Len(gi_insights) = 3
    /\ gi_insights[1].value > gi_insights[2].value

\* C10 witness of the other kind: one sentiment only, two statements.
C10_WitnessSingle ==
    /\ gi_called /\ gi_chart_type = "sentiment"
    /\ Cardinality(Distinct(c_sentiment)) = 1
    /\ Len(gi_insights) = 2

====
